---- MODULE Spec2Model ----
(***************************************************************************)
(* COTSense search page: the SearchResults page state (query, result list, *)
(* loading flag, search error, explanation mapping), the ComponentTable    *)
(* state (expanded rows, sort field and direction, the sorted rows) and    *)
(* the recommend / explain requests in flight.                             *)
(*                                                                         *)
(* React state: an event handler runs against the state committed by the   *)
(* last render, and every setState of one synchronous run is applied       *)
(* before the next event. A handler is therefore one atomic action up to   *)
(* its first await; the continuation after the await is a second action    *)
(* that reads the values its closure captured when the handler was called. *)
(***************************************************************************)
EXTENDS Integers, Sequences, FiniteSets, Bags

VARIABLES
    query,          \* useState query                      search-results.tsx:24
    components,     \* useState components (result list)   search-results.tsx:13
    isLoading,      \* useState isLoading                  search-results.tsx:14
    error,          \* useState error                      search-results.tsx:16
    explanations,   \* useState explanations: id -> text   search-results.tsx:15
    expandedRows,   \* ComponentTable useState expandedRows
    sortField,      \* ComponentTable useState sortField
    sortDirection,  \* ComponentTable useState sortDirection
    explainReqs,    \* bag of the api.explain calls awaiting their response
    searchReqs,     \* bag of the api.recommend calls awaiting their response
    asked,          \* history: ids an explain request was sent for since the result list was last set
    requested,      \* history: ids an explain request was ever sent for
    raced,          \* history: since the result list was last set, a response arrived
                    \*          while another id's request was pending
    retoggled,      \* history: since the result list was last set, a row whose
                    \*          explanation is stored was expanded or collapsed
    retried,        \* history: the last step was a click on Try Again
    trail,          \* history: the last two header clicks (field clicked, sort
                    \*          state and displayed list before the click)
    csvContent,     \* ExportButton: the text of the last CSV file saved
    selectedFile,   \* FileUpload useState selectedFile            file-upload.tsx:13
    uploadedFile,   \* Admin useState uploadedFile                 admin.tsx:30
    isProcessing,   \* Admin useState isProcessing                 admin.tsx:31
    isUploading,    \* Admin useState isUploading                  admin.tsx:32
    uploadProgress, \* Admin useState uploadProgress               admin.tsx:33
    systemStats,    \* Admin useState systemStats (TRUE: loaded)   admin.tsx:34
    uploadHistory,  \* Admin useState uploadHistory                admin.tsx:35
    adminError,     \* Admin useState error                        admin.tsx:36
    success,        \* Admin useState success                      admin.tsx:37
    progressInterval, \* the progress interval of handleFileUpload is running
    uploading,      \* the file of the handleFileUpload call awaiting its upload
    rebuilding,     \* a handleRebuildIndex call awaits its rebuild
    statsReqs       \* bag of the fetchSystemStats calls awaiting their response,
                    \* by caller

vars == <<query, components, isLoading, error, explanations, expandedRows,
          sortField, sortDirection,
          explainReqs, searchReqs, asked, requested, raced, retoggled, retried, trail,
          csvContent, selectedFile, uploadedFile, isProcessing, isUploading,
          uploadProgress, systemStats, uploadHistory, adminError, success,
          progressInterval, uploading, rebuilding, statsReqs>>

\* the state of the admin page and its upload zone
adminVars == <<selectedFile, uploadedFile, isProcessing, isUploading,
               uploadProgress, systemStats, uploadHistory, adminError, success,
               progressInterval, uploading, rebuilding, statsReqs>>

\* the state outside the search results and their table
otherVars == <<csvContent, adminVars>>

(***************************************************************************)
(* Bounds of the model.                                                    *)
(***************************************************************************)
MaxExplainInFlight == 2

(***************************************************************************)
(* Components. The backend catalogue is fixed: an identifier names one     *)
(* part. Component 1 is as the backend sends it (its score under           *)
(* spec_match), component 2 is of the client's Component type (its score   *)
(* under specMatch); a score may be absent (Missing), a category "".       *)
(***************************************************************************)
Ids == {1, 2}
Missing == -1

Component(i) ==
    [id |-> i,
     part_number |-> 100 + i,
     manufacturer |-> 200 + i,
     category |-> IF i = 1 THEN "Voltage Regulator" ELSE "",
     spec_match |-> IF i = 1 THEN 80 ELSE Missing,
     specMatch |-> IF i = 1 THEN Missing ELSE 90]

\* String.prototype.toLowerCase on the category labels of the catalogue and
\* on the words of the queries
toLowerCase(s) ==
    CASE s = "Voltage Regulator" -> "voltage regulator"
      [] s = "LM317" -> "lm317"
      [] OTHER -> s

\* component.category?.toLowerCase() || 'component'
categoryOf(c) == IF toLowerCase(c.category) = "" THEN "component" ELSE toLowerCase(c.category)

RECURSIVE SeqsUpTo(_)
SeqsUpTo(n) ==
    IF n = 0 THEN {<<>>}
    ELSE LET shorter == SeqsUpTo(n - 1)
         IN shorter \cup {Append(s, Component(i)) :
                             s \in {t \in shorter : Len(t) = n - 1}, i \in Ids}

IdsOf(list) == {list[k].id : k \in 1..Len(list)}

\* result lists the backend can return: identifiers unique within a list
ResultLists == {s \in SeqsUpTo(Cardinality(Ids)) : Cardinality(IdsOf(s)) = Len(s)}

(***************************************************************************)
(* Query texts. A text is the sequence of its tokens: a word (a maximal    *)
(* run of non-blank characters, in the letter case it was typed in) or one *)
(* blank. "" is <<>>, "  " is <<" ", " ">>, "react lm317" is               *)
(* <<"react", " ", "lm317">>. Two texts are the same string exactly when   *)
(* they are the same sequence.                                             *)
(***************************************************************************)
blank == " "

\* the texts typed into the search bar or held by the URL: the empty text,
\* a text of blanks, a part number in two letter cases, and a text the
\* validation rejects
Queries == {<<>>, <<blank, blank>>, <<"lm317">>, <<"LM317">>, <<"react">>}

RECURSIVE trimStart(_)
trimStart(text) ==
    IF Len(text) > 0 /\ Head(text) = blank THEN trimStart(Tail(text)) ELSE text

RECURSIVE trimEnd(_)
trimEnd(text) ==
    IF Len(text) > 0 /\ text[Len(text)] = blank
    THEN trimEnd(SubSeq(text, 1, Len(text) - 1))
    ELSE text

\* String.prototype.trim
trim(text) == trimEnd(trimStart(text))

\* String.prototype.toLowerCase on a text
lowerCased(text) == [k \in 1..Len(text) |-> toLowerCase(text[k])]

\* trimmedQuery.split(/\s+/) of a text with no blank at either end: its words
split(text) == SelectSeq(text, LAMBDA token : token # blank)

obviouslyBadTerms ==
    {"react", "javascript", "html", "css", "python", "java", "php", "node",
     "website", "frontend", "backend", "database", "server", "api",
     "facebook", "instagram", "twitter", "youtube", "google", "amazon"}

\* faulty variant: one listed word is enough to reject the query
isValidElectronicsQuerySome(q) ==
    LET trimmedQuery == lowerCased(trim(q))
        words == split(trimmedQuery)
    IN IF Len(trimmedQuery) < 1 \/ trimmedQuery \in {<<".">>, <<"..">>, <<"...">>}
       THEN FALSE
       ELSE ~(\E k \in 1..Len(words) : words[k] \in obviouslyBadTerms)

isValidElectronicsQuery(q) ==
    LET trimmedQuery == lowerCased(trim(q))
        words == split(trimmedQuery)
        allWordsAreBad == /\ Len(words) > 0
                          /\ \A k \in 1..Len(words) : words[k] \in obviouslyBadTerms
    IN IF Len(trimmedQuery) < 1 \/ trimmedQuery \in {<<".">>, <<"..">>, <<"...">>}
       THEN FALSE
       ELSE ~allWordsAreBad

(***************************************************************************)
(* Search error values.                                                    *)
(***************************************************************************)
NoError == [kind |-> "null", query |-> <<>>]
validationError(q) == [kind |-> "validation", query |-> q]
lowRelevanceError(q) == [kind |-> "low-relevance", query |-> q]
\* faulty variant: the catch block only logs the failure and sets no message
requestErrorUnset == NoError

requestError == [kind |-> "request-failed", query |-> <<>>]

(***************************************************************************)
(* Explanation texts, by the values interpolated into them.                *)
(***************************************************************************)
correctedExplanation(component, q) ==
    [kind |-> "corrected",
     part_number |-> component.part_number,
     manufacturer |-> component.manufacturer,
     category |-> categoryOf(component),
     query |-> q]

\* faulty variant: the catch block stores the generic text of its else branch
unableExplanation(component, q) ==
    [kind |-> "unable", part_number |-> 0, manufacturer |-> 0,
     category |-> "", query |-> <<>>]

fallbackExplanation(component, q) ==
    [kind |-> "fallback",
     part_number |-> component.part_number,
     manufacturer |-> component.manufacturer,
     category |-> categoryOf(component),
     query |-> q]

notAvailableExplanation ==
    [kind |-> "not-available", part_number |-> 0, manufacturer |-> 0,
     category |-> "", query |-> <<>>]

\* prev => ({ ...prev, [id]: text })
spreadSet(prev, id, text) ==
    [k \in (DOMAIN prev) \cup {id} |-> IF k = id THEN text ELSE prev[k]]

EmptyMap == [k \in {} |-> 0]

(***************************************************************************)
(* Rendering: the table is mounted in the last branch but two of the       *)
(* page's conditional render; its state lives while it stays mounted.      *)
(***************************************************************************)
tableShown(err, loading, list) == err = NoError /\ ~loading /\ Len(list) > 0

TableShown == tableShown(error, isLoading, components)

SortFields == {"partNumber", "manufacturer", "specMatch", "totalScore", "price"}
SortDirections == {"asc", "desc"}

\* faulty variant: the expanded rows outlive the table (state kept by the page)
tableStateKept(err, loading, list) == expandedRows

\* expanded rows of the table after a page update: kept if still mounted,
\* else those of a new table
tableState(err, loading, list) ==
    IF tableShown(err, loading, list) THEN expandedRows ELSE {}

\* sort state of the table after a page update: kept if still mounted, else
\* that of a new table
sortState(err, loading, list) ==
    IF tableShown(err, loading, list)
    THEN <<sortField, sortDirection>>
    ELSE <<"totalScore", "desc">>

(***************************************************************************)
(* Admin page and its upload zone (FileUpload).                            *)
(***************************************************************************)
MaxStatsInFlight == 2
MaxUploads == 1
maxSizeMB == 10

NoFile == [name |-> "", sizeMB |-> 0]

\* the files the user can pick: two within the size limit (one exactly at
\* it) and one over it
Files ==
    {[name |-> "a.csv", sizeMB |-> 1],
     [name |-> "b.parquet", sizeMB |-> 10],
     [name |-> "big.csv", sizeMB |-> 11]}

NoMessage == [kind |-> "null", name |-> ""]
statsError == [kind |-> "stats-failed", name |-> ""]
uploadedMessage(file) == [kind |-> "uploaded", name |-> file.name]
rebuiltMessage == [kind |-> "rebuilt", name |-> ""]

\* the upload history fetchUploadHistory sets on mount
mockHistory ==
    <<[filename |-> "components_batch_2024.csv", status |-> "success"],
      [filename |-> "new_semiconductors.parquet", status |-> "success"],
      [filename |-> "passive_components.csv", status |-> "failed"]>>

\* the callers of fetchSystemStats: the mount effect and the Refresh button,
\* handleFileUpload and handleRebuildIndex
StatsCallers == {"refresh", "upload", "rebuild"}

\* the admin page after its mount effects: the history is set, the first
\* statistics fetch is outstanding
AdminInit ==
    /\ selectedFile = NoFile
    /\ uploadedFile = NoFile
    /\ isUploading = FALSE
    /\ isProcessing = FALSE
    /\ uploadProgress = 0
    /\ progressInterval = FALSE
    /\ systemStats = FALSE
    /\ uploadHistory = mockHistory
    /\ adminError = NoMessage
    /\ success = NoMessage
    /\ uploading = NoFile
    /\ rebuilding = FALSE
    /\ statsReqs = SetToBag({"refresh"})

\* the state of the search page, its table and its export button
pageVars == <<query, components, isLoading, error, explanations, expandedRows,
              sortField, sortDirection, explainReqs, searchReqs, asked, requested,
              raced, retoggled, retried, trail, csvContent>>

\* Admin.handleFileSelect
handleFileSelect(file) ==
    /\ uploadedFile' = file
    /\ adminError' = NoMessage
    /\ success' = NoMessage

\* FileUpload.handleDrop / handleFileInput: a file is dropped on the zone or
\* picked in its file input
SelectFile(file) ==
    /\ IF file.sizeMB > maxSizeMB
       THEN UNCHANGED <<selectedFile, uploadedFile, adminError, success>>
       ELSE /\ selectedFile' = file
            /\ handleFileSelect(file)
    /\ UNCHANGED <<isUploading, isProcessing, uploadProgress, progressInterval,
                   systemStats, uploadHistory, uploading, rebuilding, statsReqs>>
    /\ UNCHANGED pageVars

\* FileUpload.clearFile: the X button of the zone, shown with a selected file
ClearFile ==
    /\ selectedFile # NoFile
    /\ selectedFile' = NoFile
    /\ UNCHANGED <<uploadedFile, isUploading, isProcessing, uploadProgress,
                   progressInterval, systemStats, uploadHistory, adminError, success,
                   uploading, rebuilding, statsReqs>>
    /\ UNCHANGED pageVars

\* the Cancel button of the admin page
Cancel ==
    /\ uploadedFile # NoFile
    /\ ~isUploading
    /\ uploadedFile' = NoFile
    /\ UNCHANGED <<selectedFile, isUploading, isProcessing, uploadProgress,
                   progressInterval, systemStats, uploadHistory, adminError, success,
                   uploading, rebuilding, statsReqs>>
    /\ UNCHANGED pageVars

\* fetchSystemStats up to its await, for one of its callers
fetchSystemStats(caller) == statsReqs' = statsReqs (+) SetToBag({caller})

\* the Refresh button
Refresh ==
    /\ BagCardinality(statsReqs) < MaxStatsInFlight
    /\ fetchSystemStats("refresh")
    /\ UNCHANGED <<selectedFile, uploadedFile, isUploading, isProcessing,
                   uploadProgress, progressInterval, systemStats, uploadHistory,
                   adminError, success, uploading, rebuilding>>
    /\ UNCHANGED pageVars

\* Admin.handleFileUpload up to its first await (Process File)
HandleFileUpload ==
    /\ uploadedFile # NoFile
    /\ ~isUploading
    /\ Len(uploadHistory) < Len(mockHistory) + MaxUploads
    /\ isUploading' = TRUE
    /\ uploadProgress' = 0
    /\ adminError' = NoMessage
    /\ success' = NoMessage
    /\ progressInterval' = TRUE
    /\ uploading' = uploadedFile
    /\ UNCHANGED <<selectedFile, uploadedFile, isProcessing, systemStats,
                   uploadHistory, rebuilding, statsReqs>>
    /\ UNCHANGED pageVars

\* a tick of the progress interval
ProgressTick ==
    /\ progressInterval
    /\ IF uploadProgress >= 90
       THEN progressInterval' = FALSE /\ uploadProgress' = 90
       ELSE uploadProgress' = uploadProgress + 10 /\ UNCHANGED progressInterval
    /\ UNCHANGED <<selectedFile, uploadedFile, isUploading, isProcessing,
                   systemStats, uploadHistory, adminError, success, uploading,
                   rebuilding, statsReqs>>
    /\ UNCHANGED pageVars

\* handleFileUpload after its first await: the upload has ended, the
\* statistics are fetched again
UploadDone ==
    /\ uploading # NoFile
    /\ progressInterval' = FALSE
    /\ uploadProgress' = 100
    /\ uploadHistory' = <<[filename |-> uploading.name, status |-> "success"]>>
                            \o uploadHistory
    /\ success' = uploadedMessage(uploading)
    /\ uploadedFile' = NoFile
    /\ uploading' = NoFile
    /\ fetchSystemStats("upload")
    /\ UNCHANGED <<selectedFile, isUploading, isProcessing, systemStats,
                   adminError, rebuilding>>
    /\ UNCHANGED pageVars

\* Admin.handleRebuildIndex up to its first await
HandleRebuildIndex ==
    /\ ~isProcessing
    /\ isProcessing' = TRUE
    /\ adminError' = NoMessage
    /\ success' = NoMessage
    /\ rebuilding' = TRUE
    /\ UNCHANGED <<selectedFile, uploadedFile, isUploading, uploadProgress,
                   progressInterval, systemStats, uploadHistory, uploading, statsReqs>>
    /\ UNCHANGED pageVars

\* handleRebuildIndex after its first await: the rebuild has ended, the
\* statistics are fetched again
RebuildDone ==
    /\ rebuilding
    /\ rebuilding' = FALSE
    /\ success' = rebuiltMessage
    /\ fetchSystemStats("rebuild")
    /\ UNCHANGED <<selectedFile, uploadedFile, isUploading, isProcessing,
                   uploadProgress, progressInterval, systemStats, uploadHistory,
                   adminError, uploading>>
    /\ UNCHANGED pageVars

\* fetchSystemStats after its await: the statistics are set, or the error is
statsOutcome(ok) ==
    IF ok
    THEN systemStats' = TRUE /\ UNCHANGED adminError
    ELSE adminError' = statsError /\ UNCHANGED systemStats

\* a statistics fetch ends; then the finally block of the handler that
\* awaited it runs
StatsDone(caller, ok) ==
    /\ BagIn(caller, statsReqs)
    /\ statsReqs' = statsReqs (-) SetToBag({caller})
    /\ statsOutcome(ok)
    /\ IF caller = "upload"
       THEN isUploading' = FALSE /\ uploadProgress' = 0
       ELSE UNCHANGED <<isUploading, uploadProgress>>
    /\ IF caller = "rebuild"
       THEN isProcessing' = FALSE
       ELSE UNCHANGED isProcessing
    /\ UNCHANGED <<selectedFile, uploadedFile, progressInterval, uploadHistory,
                   success, uploading, rebuilding>>
    /\ UNCHANGED pageVars

\* the table is rendered anew from the page's next state
renderTable ==
    /\ expandedRows' = tableState(error', isLoading', components')
    /\ sortField' = sortState(error', isLoading', components')[1]
    /\ sortDirection' = sortState(error', isLoading', components')[2]

TypeOK ==
    /\ query \in Queries
    /\ components \in ResultLists
    /\ isLoading \in BOOLEAN
    /\ DOMAIN explanations \subseteq Ids
    /\ expandedRows \subseteq Ids
    /\ sortField \in SortFields
    /\ sortDirection \in SortDirections
    /\ IsABag(explainReqs) /\ BagCardinality(explainReqs) <= MaxExplainInFlight
    /\ IsABag(searchReqs)
    /\ asked \subseteq Ids
    /\ requested \subseteq Ids
    /\ raced \in BOOLEAN
    /\ retoggled \in BOOLEAN
    /\ retried \in BOOLEAN

\* The page as opened at /search?q=<text>: the state of the first render
\* (useState, the query read from the URL) after the two effects have run
\* on mount. The location effect finds the query it read; the query effect
\* searches for a non-empty query.
Init ==
    /\ query \in Queries
    /\ components = <<>>
    /\ isLoading = (query # <<>> /\ isValidElectronicsQuery(query))
    /\ error = IF query # <<>> /\ ~isValidElectronicsQuery(query)
               THEN validationError(query)
               ELSE NoError
    /\ searchReqs = IF query # <<>> /\ isValidElectronicsQuery(query)
                    THEN SetToBag({[query |-> query]})
                    ELSE EmptyBag
    /\ explanations = EmptyMap
    /\ expandedRows = {}
    /\ sortField = "totalScore"
    /\ sortDirection = "desc"
    /\ trail = <<>>
    /\ explainReqs = EmptyBag
    /\ asked = {}
    /\ requested = {}
    /\ raced = FALSE
    /\ retoggled = FALSE
    /\ retried = FALSE
    /\ csvContent = <<>>
    /\ AdminInit


(***************************************************************************)
(* Search: searchComponents, the query effect, handleSearch, Try Again.    *)
(***************************************************************************)
\* faulty variant: the previous error is not cleared when a search starts
searchComponentsKeepsError(q) ==
    IF ~isValidElectronicsQuery(q)
    THEN /\ error' = validationError(q)
         /\ components' = <<>>
         /\ isLoading' = FALSE
         /\ asked' = {}
         /\ UNCHANGED searchReqs
         /\ renderTable
    ELSE /\ isLoading' = TRUE
         /\ searchReqs' = searchReqs (+) SetToBag({[query |-> q]})
         /\ UNCHANGED <<components, asked, error>>
         /\ renderTable

\* faulty variant: the loading flag is not set when a search starts
searchComponentsNotLoading(q) ==
    IF ~isValidElectronicsQuery(q)
    THEN /\ error' = validationError(q)
         /\ components' = <<>>
         /\ isLoading' = FALSE
         /\ asked' = {}
         /\ UNCHANGED searchReqs
         /\ renderTable
    ELSE /\ error' = NoError
         /\ searchReqs' = searchReqs (+) SetToBag({[query |-> q]})
         /\ UNCHANGED <<components, asked, isLoading>>
         /\ renderTable

\* faulty variant: a rejected query leaves the result list as it is
searchComponentsKeepsList(q) ==
    IF ~isValidElectronicsQuery(q)
    THEN /\ error' = validationError(q)
         /\ isLoading' = FALSE
         /\ UNCHANGED <<components, asked, searchReqs>>
         /\ renderTable
    ELSE /\ isLoading' = TRUE
         /\ error' = NoError
         /\ searchReqs' = searchReqs (+) SetToBag({[query |-> q]})
         /\ UNCHANGED <<components, asked>>
         /\ renderTable

\* searchComponents(searchQuery) up to its first await (or its early return)
searchComponents(q) ==
    IF ~isValidElectronicsQuery(q)
    THEN /\ error' = validationError(q)
         /\ components' = <<>>
         /\ isLoading' = FALSE
         /\ asked' = {}
         /\ UNCHANGED searchReqs
         /\ renderTable
    ELSE /\ isLoading' = TRUE
         /\ error' = NoError
         /\ searchReqs' = searchReqs (+) SetToBag({[query |-> q]})
         /\ UNCHANGED <<components, asked>>
         /\ renderTable

\* handleSearch(newQuery) and the effects of the render it causes. setQuery
\* with the query already held changes no state and no effect runs. For a
\* new query the location effect finds the URL handleSearch has just set,
\* and the query effect runs: a search for a non-empty query, a reset for
\* the empty one.
handleSearch(newQuery) ==
    /\ newQuery # query
    /\ query' = newQuery
    /\ IF newQuery # <<>>
       THEN searchComponents(newQuery)
       ELSE /\ components' = <<>>
            /\ error' = NoError
            /\ asked' = {}
            /\ UNCHANGED <<isLoading, searchReqs>>
            /\ renderTable

\* SearchBar.handleSubmit on the text typed into the search bar. The input
\* and the button are disabled while the page is loading, and a text of
\* blanks is not submitted.
\* The URL is no other way to a new query while the page is shown: the
\* location that useLocation returns is the pathname, which a change of the
\* query string (Back, Forward) leaves as it is, so no effect runs again.
HandleSubmit(text) ==
    /\ ~isLoading
    /\ trim(text) # <<>>
    /\ handleSearch(trim(text))
    /\ raced' = FALSE /\ retoggled' = FALSE /\ retried' = FALSE
    /\ UNCHANGED otherVars
    /\ UNCHANGED <<explanations, explainReqs, requested, trail>>

\* the Try Again button of the error panel: searchComponents(query)
Retry ==
    /\ error # NoError
    /\ searchComponents(query)
    /\ raced' = FALSE /\ retoggled' = FALSE /\ retried' = TRUE
    /\ UNCHANGED otherVars
    /\ UNCHANGED <<query, explanations, explainReqs, requested, trail>>

\* c.spec_match || 0
scoreOrZero(c) == IF c.spec_match = Missing THEN 0 ELSE c.spec_match

\* Math.max(...components.map(c => c.spec_match || 0)), 0 for the empty list
maxScore(list) ==
    IF Len(list) = 0 THEN 0
    ELSE CHOOSE m \in {scoreOrZero(list[k]) : k \in 1..Len(list)} :
            \A k \in 1..Len(list) : scoreOrZero(list[k]) <= m

\* faulty variant: the check leaves out the length of the list
lowRelevanceOrEmpty(list) == maxScore(list) < 50

\* components.length > 0 && maxScore < 50
lowRelevance(list) == Len(list) > 0 /\ maxScore(list) < 50

RecommendOutcomes ==
    {[ok |-> TRUE, components |-> l] : l \in ResultLists}
        \cup {[ok |-> FALSE, components |-> <<>>]}

\* every recommend request the page can send
SearchRequests == {[query |-> q] : q \in Queries}

\* the response of recommend request r arrives: the rest of searchComponents
\* (try after the await, catch, finally)
RecommendDone(r, resp) ==
    /\ BagIn(r, searchReqs)
    /\ LET q == r.query
           list == resp.components
           err == IF ~resp.ok THEN requestError
                  ELSE IF lowRelevance(list)
                       THEN lowRelevanceError(q)
                       ELSE error
           shown == IF resp.ok /\ ~lowRelevance(list) THEN list ELSE <<>>
       IN /\ error' = err
          /\ components' = shown
          /\ isLoading' = FALSE
          /\ renderTable
    /\ searchReqs' = searchReqs (-) SetToBag({r})
    /\ asked' = {}
    /\ raced' = FALSE /\ retoggled' = FALSE /\ retried' = FALSE
    /\ UNCHANGED otherVars
    /\ UNCHANGED <<query, explanations, explainReqs, requested, trail>>

(***************************************************************************)
(* Explanations: toggleRow, handleExplain and the arrival of a response.   *)
(***************************************************************************)
\* components.find(c => c.id === componentId)
find(list, id) ==
    IF id \in IdsOf(list)
    THEN {list[CHOOSE k \in 1..Len(list) :
                 list[k].id = id /\ \A j \in 1..(k - 1) : list[j].id # id]}
    ELSE {}

\* faulty variant: the mapping is looked up by part number instead of identifier
hasExplanationByPartNumber(map, id) == Component(id).part_number \in DOMAIN map

\* explanations[id] as a condition: an entry is stored, and every stored text
\* is a non-empty string
hasExplanation(map, id) == id \in DOMAIN map

\* faulty variant: the request carries the query of the first render (a stale closure)
handleExplainStaleQuery(id) ==
    IF hasExplanation(explanations, id)
    THEN UNCHANGED <<explanations, explainReqs, asked, requested>>
    ELSE /\ find(components, id) # {}
         /\ BagCardinality(explainReqs) < MaxExplainInFlight
         /\ explainReqs' = explainReqs (+) SetToBag({
                [componentId |-> id, query |-> <<>>,
                 component |-> CHOOSE c \in find(components, id) : TRUE]})
         /\ asked' = asked \cup {id}
         /\ requested' = requested \cup {id}
         /\ UNCHANGED explanations

\* handleExplain(componentId) up to its await
handleExplain(id) ==
    IF hasExplanation(explanations, id)
    THEN UNCHANGED <<explanations, explainReqs, asked, requested>>
    ELSE IF find(components, id) = {}
    THEN /\ explanations' = spreadSet(explanations, id, notAvailableExplanation)
         /\ UNCHANGED <<explainReqs, asked, requested>>
    ELSE /\ BagCardinality(explainReqs) < MaxExplainInFlight
         /\ explainReqs' = explainReqs (+) SetToBag({
                [componentId |-> id, query |-> query,
                 component |-> CHOOSE c \in find(components, id) : TRUE]})
         /\ asked' = asked \cup {id}
         /\ requested' = requested \cup {id}
         /\ UNCHANGED explanations

\* a click on the row of component id
ToggleRow(id) ==
    /\ TableShown
    /\ id \in IdsOf(components)
    /\ IF id \in expandedRows
       THEN /\ expandedRows' = expandedRows \ {id}
            /\ UNCHANGED <<explanations, explainReqs, asked, requested>>
       ELSE /\ expandedRows' = expandedRows \cup {id}
            /\ IF ~hasExplanation(explanations, id) /\ find(components, id) # {}
               THEN handleExplain(id)
               ELSE UNCHANGED <<explanations, explainReqs, asked, requested>>
    /\ retoggled' = (retoggled \/ id \in DOMAIN explanations)
    /\ retried' = FALSE
    /\ UNCHANGED otherVars
    /\ UNCHANGED <<query, components, isLoading, error, searchReqs, raced,
                   sortField, sortDirection, trail>>

\* what the explain endpoint can answer: a text about some component (the
\* upstream service may describe another part than the one asked for), an
\* error status or network failure, or a body without an explanation string
ExplainOutcomes ==
    {[status |-> "ok", about |-> i] : i \in Ids}
        \cup {[status |-> "error", about |-> 0], [status |-> "malformed", about |-> 0]}

\* faulty variant: the text of the response is stored as it came, so it is about the
\* component the upstream service described
explanationFromResponse(req, resp) ==
    IF resp.status = "ok"
    THEN correctedExplanation(Component(resp.about), req.query)
    ELSE fallbackExplanation(req.component, req.query)

\* the text handleExplain stores for request req on response resp
explanationFor(req, resp) ==
    IF resp.status = "ok"
    THEN correctedExplanation(req.component, req.query)
    ELSE fallbackExplanation(req.component, req.query)

\* faulty variant: the mapping is replaced by the new entry alone (no ...prev)
setExplanationsNoSpread(prev, id, text) == spreadSet(EmptyMap, id, text)

\* faulty variant: the catch block only logs the failure and stores nothing
setExplanationsNoFallback(prev, id, text) ==
    IF text.kind = "fallback" THEN prev ELSE spreadSet(prev, id, text)

\* setExplanations(prev => ({ ...prev, [componentId]: text }))
setExplanations(prev, id, text) == spreadSet(prev, id, text)

\* the response of explain request req arrives: the rest of handleExplain
\* (try after the await, or catch)
ExplainDone(req, resp) ==
    /\ BagIn(req, explainReqs)
    /\ explanations' =
          setExplanations(explanations, req.componentId, explanationFor(req, resp))
    /\ raced' = (raced \/ \E t \in BagToSet(explainReqs) :
                              t.componentId # req.componentId)
    /\ explainReqs' = explainReqs (-) SetToBag({req})
    /\ UNCHANGED <<query, components, isLoading, error, expandedRows, searchReqs,
                   asked, requested, retoggled, sortField, sortDirection, trail>>
    /\ retried' = FALSE
    /\ UNCHANGED otherVars

\* every explain request the page can send
ExplainRequests ==
    {[componentId |-> i, query |-> q, component |-> Component(i)] :
        i \in Ids, q \in Queries}

(***************************************************************************)
(* ComponentTable: the sort of the displayed rows.                         *)
(*                                                                         *)
(* A JavaScript value is modelled by its type, its number and the          *)
(* characters of String(value); a string is the sequence of its            *)
(* characters.                                                             *)
(***************************************************************************)
SortLen == 3

digits == <<"0", "1", "2", "3", "4", "5", "6", "7", "8", "9">>

\* String(n) for a non-negative integer n
RECURSIVE toString(_)
toString(n) ==
    IF n < 10 THEN <<digits[n + 1]>>
    ELSE toString(n \div 10) \o <<digits[(n % 10) + 1]>>

number(n) == [type |-> "number", num |-> n, chars |-> toString(n)]
string(s) == [type |-> "string", num |-> 0, chars |-> s]
undefined == [type |-> "undefined", num |-> 0,
              chars |-> <<"u", "n", "d", "e", "f", "i", "n", "e", "d">>]
null == [type |-> "null", num |-> 0, chars |-> <<"n", "u", "l", "l">>]

\* a ?? b
nullish(a, b) == IF a.type \in {"undefined", "null"} THEN b ELSE a

\* the rows the table is given in the sort model: rows as the backend sends
\* them (snake_case) and rows of the client's Component type (camelCase);
\* part number and manufacturer are never null, the scores and the price of
\* rows 4 and 5 are null or absent
SortItem(i) ==
    CASE i = 1 ->
           [id |-> 1, part_number |-> string(<<"l", "m", "3">>), partNumber |-> undefined,
            manufacturer |-> string(<<"t", "i">>),
            spec_match |-> number(10), specMatch |-> undefined,
            total_score |-> number(9), totalScore |-> undefined,
            price |-> number(0)]
      [] i = 2 ->
           [id |-> 2, part_number |-> string(<<"l", "m", "7">>), partNumber |-> undefined,
            manufacturer |-> string(<<"s", "t">>),
            spec_match |-> number(9), specMatch |-> undefined,
            total_score |-> number(10), totalScore |-> undefined,
            price |-> number(9)]
      [] i = 3 ->
           [id |-> 3, part_number |-> undefined, partNumber |-> string(<<"L", "M", "3">>),
            manufacturer |-> string(<<"T", "I">>),
            spec_match |-> undefined, specMatch |-> number(9),
            total_score |-> undefined, totalScore |-> number(9),
            price |-> number(10)]
      [] i = 4 ->
           [id |-> 4, part_number |-> string(<<"a", "b">>), partNumber |-> undefined,
            manufacturer |-> string(<<"a", "b">>),
            spec_match |-> null, specMatch |-> undefined,
            total_score |-> null, totalScore |-> undefined,
            price |-> null]
      [] OTHER ->
           [id |-> 5, part_number |-> undefined, partNumber |-> string(<<"b", "1">>),
            manufacturer |-> string(<<"s", "t">>),
            spec_match |-> undefined, specMatch |-> null,
            total_score |-> undefined, totalScore |-> null,
            price |-> undefined]

SortIds == 1..5

RECURSIVE SortSeqsUpTo(_)
SortSeqsUpTo(n) ==
    IF n = 0 THEN {<<>>}
    ELSE LET shorter == SortSeqsUpTo(n - 1)
         IN shorter \cup {Append(s, SortItem(i)) :
                             s \in {t \in shorter : Len(t) = n - 1}, i \in SortIds}

\* the lists the table is given in the sort model: identifiers unique
SortLists == {s \in SortSeqsUpTo(SortLen) : Cardinality(IdsOf(s)) = Len(s)}

fieldMap ==
    [partNumber |-> "part_number", manufacturer |-> "manufacturer",
     specMatch |-> "spec_match", totalScore |-> "total_score", price |-> "price"]

\* faulty variant: a missing value is read as the number 0
sortValueZero(c, field) ==
    nullish(nullish(c[fieldMap[field]], c[field]), number(0))

\* (a as any)[backendField] ?? a[sortField] ?? ""
sortValue(c, field) ==
    nullish(nullish(c[fieldMap[field]], c[field]), string(<<>>))

\* the characters of the model in collation order: digits before letters
collation == <<"0", "1", "2", "3", "4", "5", "6", "7", "8", "9",
               "a", "b", "d", "e", "f", "i", "l", "m", "n", "s", "t", "u">>

upperCase == {"A", "B", "D", "E", "F", "I", "L", "M", "N", "S", "T", "U"}

foldCase(ch) ==
    CASE ch = "A" -> "a" [] ch = "B" -> "b" [] ch = "D" -> "d" [] ch = "E" -> "e"
      [] ch = "F" -> "f" [] ch = "I" -> "i" [] ch = "L" -> "l" [] ch = "M" -> "m"
      [] ch = "N" -> "n" [] ch = "S" -> "s" [] ch = "T" -> "t" [] ch = "U" -> "u"
      [] OTHER -> ch

\* primary weights of a string: its characters without their case
primaryKey(s) ==
    [k \in 1..Len(s) |->
        CHOOSE r \in 1..Len(collation) : collation[r] = foldCase(s[k])]

\* tertiary weights of a string: lower case before upper case
caseKey(s) == [k \in 1..Len(s) |-> IF s[k] \in upperCase THEN 1 ELSE 0]

\* lexicographic comparison of two weight sequences: -1, 0 or 1
RECURSIVE compareKeys(_, _)
compareKeys(s, t) ==
    IF s = <<>> THEN (IF t = <<>> THEN 0 ELSE -1)
    ELSE IF t = <<>> THEN 1
    ELSE IF Head(s) < Head(t) THEN -1
    ELSE IF Head(s) > Head(t) THEN 1
    ELSE compareKeys(Tail(s), Tail(t))

\* String.prototype.localeCompare: the letters decide first, their case only
\* between strings with the same letters
localeCompare(s, t) ==
    IF compareKeys(primaryKey(s), primaryKey(t)) # 0
    THEN compareKeys(primaryKey(s), primaryKey(t))
    ELSE compareKeys(caseKey(s), caseKey(t))

\* faulty variant: every pair of values is compared as strings
compareAsStrings(a, b, field, direction) ==
    LET aVal == sortValue(a, field)
        bVal == sortValue(b, field)
        multiplier == IF direction = "asc" THEN 1 ELSE -1
    IN localeCompare(aVal.chars, bVal.chars) * multiplier

\* the comparator handed to Array.prototype.sort
compare(a, b, field, direction) ==
    LET aVal == sortValue(a, field)
        bVal == sortValue(b, field)
        multiplier == IF direction = "asc" THEN 1 ELSE -1
    IN IF aVal.type = "number" /\ bVal.type = "number"
       THEN (aVal.num - bVal.num) * multiplier
       ELSE localeCompare(aVal.chars, bVal.chars) * multiplier

\* Array.prototype.sort is stable: a row goes behind the rows that do not
\* compare greater than it
RECURSIVE insert(_, _, _, _)
insert(x, s, field, direction) ==
    IF s = <<>> THEN <<x>>
    ELSE IF compare(Head(s), x, field, direction) <= 0
    THEN <<Head(s)>> \o insert(x, Tail(s), field, direction)
    ELSE <<x>> \o s

RECURSIVE sort(_, _, _)
sort(list, field, direction) ==
    IF list = <<>> THEN <<>>
    ELSE insert(list[Len(list)],
                sort(SubSeq(list, 1, Len(list) - 1), field, direction),
                field, direction)

\* faulty variant: the copy that is sorted lacks the first row
sortByRest(list, field, direction) ==
    IF list = <<>> THEN <<>> ELSE sort(Tail(list), field, direction)

\* [...components].sort(comparator)
sortBy(list, field, direction) == sort(list, field, direction)

\* the rows in the order the table displays them
sortedComponents == sortBy(components, sortField, sortDirection)

\* the identifiers of a list, in its order
idOrder(list) == [k \in 1..Len(list) |-> list[k].id]

\* faulty variant: a click on a new field keeps the direction
handleSortKeepsDirection(field) ==
    IF sortField = field
    THEN /\ sortDirection' = (IF sortDirection = "asc" THEN "desc" ELSE "asc")
         /\ UNCHANGED sortField
    ELSE /\ sortField' = field
         /\ UNCHANGED sortDirection

\* faulty variant: a click on the current field always sorts ascending
handleSortAscending(field) ==
    IF sortField = field
    THEN /\ sortDirection' = "asc"
         /\ UNCHANGED sortField
    ELSE /\ sortField' = field
         /\ sortDirection' = "desc"

handleSort(field) ==
    IF sortField = field
    THEN /\ sortDirection' = (IF sortDirection = "asc" THEN "desc" ELSE "asc")
         /\ UNCHANGED sortField
    ELSE /\ sortField' = field
         /\ sortDirection' = "desc"

\* faulty variant: a header click also collapses the expanded rows
HandleSortCollapses(field) ==
    /\ TableShown
    /\ handleSort(field)
    /\ expandedRows' = {}
    /\ retried' = FALSE
    /\ UNCHANGED otherVars
    /\ UNCHANGED <<query, components, isLoading, error, explanations,
                   explainReqs, searchReqs, asked, requested, raced, retoggled>>

\* a click on a column header of the displayed table
HandleSort(field) ==
    /\ TableShown
    /\ handleSort(field)
    /\ retried' = FALSE
    /\ UNCHANGED otherVars
    /\ UNCHANGED <<query, components, isLoading, error, explanations, expandedRows,
                   explainReqs, searchReqs, asked, requested, raced, retoggled>>

\* a header click on the search page
HeaderClick(field) == HandleSort(field) /\ UNCHANGED trail

\* a header click, remembered with the sort state and the display before it
SortClick(field) ==
    /\ HandleSort(field)
    /\ trail' = LET entry == [field |-> field,
                              sortField |-> sortField,
                              sortDirection |-> sortDirection,
                              shown |-> idOrder(sortedComponents)]
                IN IF trail = <<>> THEN <<entry>> ELSE <<trail[Len(trail)], entry>>

(***************************************************************************)
(* ExportButton: the CSV export of a component list. A text is the         *)
(* sequence of its characters; an ordinary run of characters (a header     *)
(* name, "ti") stands as one element.                                      *)
(***************************************************************************)
CsvLen == 2

quote == "\""
comma == ","
newline == "\n"

\* the part numbers of the export model: plain, and with the characters
\* that are special in CSV
CsvPartNumbers ==
    {<<"a">>, <<quote>>, <<comma>>, <<newline>>, <<"a", quote>>, <<quote, quote>>}

\* the scores and the price of a row of the export model: as the backend
\* sends them (snake_case) with the value 0, with other values, under the
\* camelCase names, and missing
CsvNumbers ==
    {[spec_match |-> number(0), specMatch |-> undefined,
      total_score |-> number(0), totalScore |-> undefined, price |-> number(0)],
     [spec_match |-> number(9), specMatch |-> undefined,
      total_score |-> number(10), totalScore |-> undefined, price |-> null],
     [spec_match |-> undefined, specMatch |-> number(0),
      total_score |-> undefined, totalScore |-> number(9), price |-> number(9)],
     [spec_match |-> null, specMatch |-> undefined,
      total_score |-> null, totalScore |-> undefined, price |-> undefined]}

CsvItem(p, n) ==
    [part_number |-> string(p), partNumber |-> undefined,
     manufacturer |-> string(<<"ti">>), category |-> string(<<>>),
     spec_match |-> n.spec_match, specMatch |-> n.specMatch,
     total_score |-> n.total_score, totalScore |-> n.totalScore,
     price |-> n.price, stock |-> undefined]

CsvItems == {CsvItem(p, n) : p \in CsvPartNumbers, n \in CsvNumbers}

RECURSIVE CsvSeqsUpTo(_)
CsvSeqsUpTo(n) ==
    IF n = 0 THEN {<<>>}
    ELSE LET shorter == CsvSeqsUpTo(n - 1)
         IN shorter \cup {Append(s, c) :
                             s \in {t \in shorter : Len(t) = n - 1}, c \in CsvItems}

\* the lists the export button is given in the export model
CsvLists == CsvSeqsUpTo(CsvLen)

\* a value that || passes over
falsy(v) ==
    \/ v.type \in {"undefined", "null"}
    \/ v.type = "number" /\ v.num = 0
    \/ v.type = "string" /\ v.chars = <<>>

\* a || b
or(a, b) == IF falsy(a) THEN b ELSE a

RECURSIVE zeros(_)
zeros(d) == IF d = 0 THEN <<>> ELSE <<"0">> \o zeros(d - 1)

\* n.toFixed(d) for a non-negative integer n
toFixed(n, d) == toString(n) \o <<".">> \o zeros(d)

\* v?.toFixed(d)
toFixedOptional(v, d) ==
    IF v.type \in {"undefined", "null"} THEN undefined
    ELSE string(toFixed(v.num, d))

headers == <<"Part Number", "Manufacturer", "Category", "Spec Match",
             "Total Score", "Price", "Stock">>

\* the cells of the row of one component
exportRow(c) ==
    <<or(or(c.part_number, c.partNumber), string(<<>>)).chars,
      or(c.manufacturer, string(<<>>)).chars,
      or(c.category, string(<<>>)).chars,
      nullish(toFixedOptional(or(c.spec_match, c.specMatch), 1), string(<<>>)).chars,
      nullish(toFixedOptional(or(c.total_score, c.totalScore), 1), string(<<>>)).chars,
      nullish(toFixedOptional(c.price, 2), string(<<>>)).chars,
      nullish(c.stock, string(<<>>)).chars>>

\* Array.prototype.join of texts
RECURSIVE join(_, _)
join(texts, separator) ==
    IF texts = <<>> THEN <<>>
    ELSE IF Len(texts) = 1 THEN texts[1]
    ELSE texts[1] \o <<separator>> \o join(Tail(texts), separator)

\* `"${cell}"`
quoted(cell) == <<quote>> \o cell \o <<quote>>

\* the text of the file exportToCSV saves
exportToCSV(list) ==
    LET headerLine == join([k \in 1..Len(headers) |-> <<headers[k]>>], comma)
        rowLine(c) == join([k \in 1..Len(exportRow(c)) |-> quoted(exportRow(c)[k])], comma)
    IN join(<<headerLine>> \o [k \in 1..Len(list) |-> rowLine(list[k])], newline)

\* a click on Export CSV (the button is disabled for an empty list)
ExportToCSV ==
    /\ Len(components) > 0
    /\ csvContent' = exportToCSV(components)
    /\ UNCHANGED <<query, components, isLoading, error, explanations, expandedRows,
                   sortField, sortDirection, explainReqs, searchReqs, asked,
                   requested, raced, retoggled, retried, trail>>
    /\ UNCHANGED adminVars

\* a CSV reader (RFC 4180): the records of a text, each the sequence of its
\* fields; a quote inside a quoted field is written twice, and a text that
\* breaks the format is not read
RECURSIVE readCSV(_, _, _, _, _, _)
readCSV(text, i, mode, field, record, records) ==
    IF i > Len(text)
    THEN IF mode = "quoted"
         THEN [ok |-> FALSE, records |-> <<>>]
         ELSE [ok |-> TRUE, records |-> Append(records, Append(record, field))]
    ELSE LET ch == text[i]
         IN CASE mode = "quoted" /\ ch = quote ->
                   readCSV(text, i + 1, "afterQuote", field, record, records)
              [] mode = "quoted" /\ ch # quote ->
                   readCSV(text, i + 1, "quoted", Append(field, ch), record, records)
              [] mode = "afterQuote" /\ ch = quote ->
                   readCSV(text, i + 1, "quoted", Append(field, quote), record, records)
              [] mode = "start" /\ ch = quote ->
                   readCSV(text, i + 1, "quoted", <<>>, record, records)
              [] mode = "unquoted" /\ ch = quote ->
                   [ok |-> FALSE, records |-> <<>>]
              [] mode # "quoted" /\ ch = comma ->
                   readCSV(text, i + 1, "start", <<>>, Append(record, field), records)
              [] mode # "quoted" /\ ch = newline ->
                   readCSV(text, i + 1, "start", <<>>, <<>>,
                           Append(records, Append(record, field)))
              [] mode = "afterQuote" /\ ch \notin {quote, comma, newline} ->
                   [ok |-> FALSE, records |-> <<>>]
              [] OTHER ->
                   readCSV(text, i + 1, "unquoted", Append(field, ch), record, records)

parseCSV(text) == readCSV(text, 1, "start", <<>>, <<>>, <<>>)

Next ==
    \/ \E text \in Queries : HandleSubmit(text)
    \/ Retry
    \/ \E r \in BagToSet(searchReqs), resp \in RecommendOutcomes : RecommendDone(r, resp)
    \/ \E id \in Ids : ToggleRow(id)
    \/ \E req \in BagToSet(explainReqs), resp \in ExplainOutcomes : ExplainDone(req, resp)

Spec == Init /\ [][Next]_vars

\* the search page with the header clicks of its table
TableNext ==
    \/ Next
    \/ \E field \in SortFields : HeaderClick(field)

TableSpec == Init /\ [][TableNext]_vars

\* a table that was given a list, and the header clicks on it
SortInit ==
    /\ query = <<"lm317">>
    /\ components \in SortLists
    /\ isLoading = FALSE
    /\ error = NoError
    /\ explanations = EmptyMap
    /\ expandedRows = {}
    /\ sortField = "totalScore"
    /\ sortDirection = "desc"
    /\ trail = <<>>
    /\ explainReqs = EmptyBag
    /\ searchReqs = EmptyBag
    /\ asked = {}
    /\ requested = {}
    /\ raced = FALSE
    /\ retoggled = FALSE
    /\ retried = FALSE
    /\ csvContent = <<>>
    /\ AdminInit

SortNext == \E field \in SortFields : SortClick(field)

SortSpec == SortInit /\ [][SortNext]_vars

\* an export button that was given a list, and the clicks on it
CsvInit ==
    /\ query = <<"lm317">>
    /\ components \in CsvLists
    /\ isLoading = FALSE
    /\ error = NoError
    /\ explanations = EmptyMap
    /\ expandedRows = {}
    /\ sortField = "totalScore"
    /\ sortDirection = "desc"
    /\ trail = <<>>
    /\ explainReqs = EmptyBag
    /\ searchReqs = EmptyBag
    /\ asked = {}
    /\ requested = {}
    /\ raced = FALSE
    /\ retoggled = FALSE
    /\ retried = FALSE
    /\ csvContent = <<>>
    /\ AdminInit

CsvNext == ExportToCSV

CsvSpec == CsvInit /\ [][CsvNext]_vars

\* the searches of the page alone, on more texts: a part number after a
\* blank, texts of one and of two words that pass the validation, texts of a
\* software term with another word on either side, a text of two software
\* terms, and texts of one, three and four dots
SearchQueries ==
    Queries \cup
        {<<blank, "lm317">>, <<"ne555">>, <<"lm7805">>, <<"regulator">>,
         <<"5v", blank, "regulator">>, <<"react", blank, "lm317">>,
         <<"lm317", blank, "react">>, <<"react", blank, "java">>,
         <<"2n2222">>, <<".">>, <<"...">>, <<"....">>}

SearchNext ==
    \/ \E text \in SearchQueries : HandleSubmit(text)
    \/ Retry
    \/ \E r \in BagToSet(searchReqs), resp \in RecommendOutcomes : RecommendDone(r, resp)

SearchSpec == Init /\ [][SearchNext]_vars

AdminNext ==
    \/ \E file \in Files : SelectFile(file)
    \/ ClearFile
    \/ Cancel
    \/ Refresh
    \/ HandleFileUpload
    \/ ProgressTick
    \/ UploadDone
    \/ HandleRebuildIndex
    \/ RebuildDone
    \/ \E caller \in StatsCallers, ok \in BOOLEAN : StatsDone(caller, ok)

AdminSpec == Init /\ [][AdminNext]_vars


(***************************************************************************)
(* Properties.                                                             *)
(***************************************************************************)
\* the explain requests for id awaiting their response
pendingFor(id) == {r \in BagToSet(explainReqs) : r.componentId = id}

\* this step sends an explain request for id
Sends(id) ==
    \E r \in ExplainRequests :
        r.componentId = id /\ CopiesIn(r, explainReqs') > CopiesIn(r, explainReqs)

\* the pending indicator of row id is on screen
pendingShown(id) ==
    /\ TableShown
    /\ id \in IdsOf(components)
    /\ id \in expandedRows
    /\ ~hasExplanation(explanations, id)

\* C1: while the result list is not set anew, at most one explanation request
\* is sent per identifier: no step sends a request for an identifier that one
\* was already sent for, in particular not a collapse and re-expand of a row
\* whose request is still outstanding.
C1_AtMostOneRequestPerId ==
    [][\A id \in asked : ~Sends(id)]_vars

\* C2: expanding a collapsed row that has no stored explanation and no earlier
\* request sends exactly one explanation request, for that row's identifier
\* and the current query.
C2_ExpandSendsOneRequest ==
    [][\A id \in Ids :
         (ToggleRow(id) /\ id \notin expandedRows /\ id \notin DOMAIN explanations
            /\ id \notin asked)
         => \E r \in ExplainRequests :
               /\ r.componentId = id
               /\ r.query = query
               /\ explainReqs' = explainReqs (+) SetToBag({r})]_vars

C2_Witness ==
    \E id \in Ids :
        /\ TableShown /\ id \in expandedRows /\ id \in asked
        /\ id \notin DOMAIN explanations
        /\ query # <<>>
        /\ BagCardinality(explainReqs) = 1
        /\ \E r \in pendingFor(id) : r.query = query

\* C3: once an explanation is stored for an identifier, expanding or
\* collapsing its row sends no request and leaves the explanation mapping as
\* it is.
C3_StoredNeverRefetched ==
    [][\A id \in Ids :
         (id \in DOMAIN explanations /\ ToggleRow(id))
         => (explainReqs' = explainReqs /\ explanations' = explanations)]_vars

C3_Witness ==
    \E id \in Ids :
        /\ retoggled /\ TableShown
        /\ id \in DOMAIN explanations /\ id \in expandedRows
        /\ pendingFor(id) = {}

\* C4: an explanation response that arrives after the query has changed is
\* discarded: it adds or changes no entry of the explanation mapping.
C4_StaleResponseDiscarded ==
    [][\A req \in ExplainRequests, resp \in ExplainOutcomes :
         (ExplainDone(req, resp) /\ req.query # query)
         => explanations' = explanations]_vars

\* C5: when the query changes, the explanation mapping is cleared: no entry
\* stored under the previous query remains.
C5_ClearedOnNewQuery ==
    [][query' # query => DOMAIN explanations' = {}]_vars

\* C6: whatever the order in which responses arrive, the entry stored under an
\* identifier is built from the part number and manufacturer of the component
\* with that identifier.
C6_EntryIsAboutItsComponent ==
    \A id \in DOMAIN explanations :
        /\ explanations[id].part_number = Component(id).part_number
        /\ explanations[id].manufacturer = Component(id).manufacturer

C6_Witness ==
    /\ raced
    /\ DOMAIN explanations = Ids
    /\ \E a, b \in Ids :
          /\ a # b
          /\ explanations[a].kind = "corrected"
          /\ explanations[b].kind = "corrected"

\* C7: when an explanation request fails, the fallback text built from the
\* requested component's fields is stored under that component's identifier
\* and nothing else changes: not the result list, the search error, the
\* loading flag, nor the entries of other identifiers.
C7_FailureStoresFallbackOnly ==
    [][\A req \in ExplainRequests, resp \in ExplainOutcomes :
         (ExplainDone(req, resp) /\ resp.status # "ok")
         => /\ req.componentId \in DOMAIN explanations'
            /\ explanations'[req.componentId].kind = "fallback"
            /\ explanations'[req.componentId].part_number = req.component.part_number
            /\ explanations'[req.componentId].manufacturer = req.component.manufacturer
            /\ explanations'[req.componentId].category = categoryOf(req.component)
            /\ DOMAIN explanations' = DOMAIN explanations \cup {req.componentId}
            /\ \A k \in DOMAIN explanations \ {req.componentId} :
                  explanations'[k] = explanations[k]
            /\ UNCHANGED <<components, error, isLoading, query, expandedRows>>]_vars

C7_Witness ==
    \E id \in DOMAIN explanations, k \in DOMAIN explanations :
        /\ id # k
        /\ explanations[id].kind = "fallback"
        /\ explanations[k].kind = "corrected"
        /\ TableShown

\* C8: if every explanation request eventually resolves or fails, a row that
\* shows the pending indicator eventually has an explanation stored for its
\* identifier. The hypothesis is the claim's: api.explain sets no timeout, and
\* a request the backend never answers leaves the indicator on for ever.
C8_PendingEventuallyStored ==
    (\A req \in ExplainRequests :
        WF_vars(\E resp \in ExplainOutcomes : ExplainDone(req, resp)))
    => \A id \in Ids : pendingShown(id) ~> hasExplanation(explanations, id)

C8_Witness ==
    \E id \in Ids : pendingShown(id) /\ pendingFor(id) # {}

\* C9: no completion loses another's result: every identifier a request was
\* sent for and none is outstanding for has an entry in the mapping.
C9_NoLostResult ==
    \A id \in requested : pendingFor(id) = {} => id \in DOMAIN explanations

C9_Witness ==
    /\ raced
    /\ explainReqs = EmptyBag
    /\ requested = Ids
    /\ DOMAIN explanations = Ids

\* C10: every key of the explanation mapping is the identifier of a component
\* of the current result list.
C10_KeysInResultList ==
    DOMAIN explanations \subseteq IdsOf(components)


C12_FailedSearchShowsError ==
    [][\A r \in SearchRequests, resp \in RecommendOutcomes :
         (RecommendDone(r, resp) /\ ~resp.ok)
         => (error' # NoError /\ components' = <<>> /\ ~isLoading')]_vars

C12_Witness ==
    /\ error = requestError
    /\ components = <<>>
    /\ ~isLoading
    /\ query = <<"lm317">>

\* C13 as claimed: in every error state, Try Again sends a new search request
\* for the current query, with the previous error cleared, and leaves the
\* query as it is.
C13_RetryAlwaysSearches ==
    [][Retry
         => /\ query' = query
            /\ error' = NoError
            /\ searchReqs' = searchReqs (+) SetToBag({[query |-> query]})]_vars

\* C13 as amended: Try Again leaves the query as it is; if the current query
\* passes the validation it sends one new search request for exactly that
\* query with the error cleared and the loading flag set, and otherwise it
\* sends no request and sets the validation error for that query.
C13_RetrySearchesValidQuery ==
    [][Retry
         => /\ query' = query
            /\ IF isValidElectronicsQuery(query)
               THEN /\ error' = NoError
                    /\ isLoading'
                    /\ searchReqs' = searchReqs (+) SetToBag({[query |-> query]})
               ELSE /\ error' = validationError(query)
                    /\ searchReqs' = searchReqs]_vars

C13_Witness ==
    /\ retried
    /\ query = <<"lm317">>
    /\ error = NoError
    /\ isLoading
    /\ BagIn([query |-> query], searchReqs)

NumericFields == {"specMatch", "totalScore", "price"}

\* the value a component carries for a field, under either of its names, as
\* the table reads it
rawValue(c, field) == nullish(c[fieldMap[field]], c[field])

\* the row carries a value for the sort field
present(c, field) == rawValue(c, field).type \notin {"undefined", "null"}

\* C15: handleSort(f) flips the direction and keeps the field when f is the
\* current sort field; it sets the field to f and the direction to descending
\* when f is another field, whatever the direction was.
C15_HandleSortFlipsOrResets ==
    [][\A field \in SortFields :
          SortClick(field) =>
              IF field = sortField
              THEN sortField' = sortField /\ sortDirection' # sortDirection
              ELSE sortField' = field /\ sortDirection' = "desc"]_vars

\* a click on the current field (descending before it) was followed by a
\* click on another field while the direction was ascending
C15_Witness ==
    /\ Len(trail) = 2
    /\ trail[1].field = trail[1].sortField /\ trail[1].sortDirection = "desc"
    /\ trail[2].field # trail[2].sortField /\ trail[2].sortDirection = "asc"
    /\ sortField = trail[2].field /\ sortDirection = "desc"

\* C16 as stated: after two consecutive clicks on one header, from any sort
\* state, the rows are displayed in the order they had before the two clicks.
C16_TwoClicksRestoreOrder ==
    (Len(trail) = 2 /\ trail[1].field = trail[2].field)
        => idOrder(sortedComponents) = trail[1].shown

\* C16 amended: after two consecutive clicks on the header of the field the
\* table was already sorted by, the rows are displayed in the order they had
\* before the two clicks.
C16_TwoClicksOnCurrentFieldRestoreOrder ==
    (/\ Len(trail) = 2
     /\ trail[1].field = trail[2].field
     /\ trail[1].field = trail[1].sortField)
        => idOrder(sortedComponents) = trail[1].shown

\* two clicks on the current field: the first changed the displayed order, the
\* second restored it
C16_Witness ==
    /\ Len(trail) = 2
    /\ trail[1].field = trail[2].field
    /\ trail[1].field = trail[1].sortField
    /\ trail[2].shown # trail[1].shown
    /\ idOrder(sortedComponents) = trail[1].shown

\* the rows of list, in this order, do not decrease (ascending) or do not
\* increase (descending) in the number they carry for field
orderedByNumber(list, field, direction) ==
    \A j, k \in 1..Len(list) :
        j < k => IF direction = "asc"
                 THEN rawValue(list[j], field).num <= rawValue(list[k], field).num
                 ELSE rawValue(list[j], field).num >= rawValue(list[k], field).num

isPermutation(out, list) ==
    /\ Len(out) = Len(list)
    /\ {out[k] : k \in 1..Len(out)} = {list[k] : k \in 1..Len(list)}

\* C17: for a numeric sort field that every row carries a number for, the
\* displayed list is a permutation of the input list in numeric order,
\* non-decreasing when ascending and non-increasing when descending, and a
\* header click leaves the input list as it was.
C17_NumericOrder ==
    /\ [](\A field \in NumericFields, direction \in SortDirections :
             (\A k \in 1..Len(components) :
                  rawValue(components[k], field).type = "number")
                => /\ isPermutation(sortBy(components, field, direction), components)
                   /\ orderedByNumber(sortBy(components, field, direction),
                                      field, direction))
    /\ [][(\E field \in SortFields : SortClick(field))
             => components' = components]_vars

\* prices 10, 9, 0 in the input, displayed ascending as 0, 9, 10
C17_Witness ==
    /\ sortField = "price" /\ sortDirection = "asc"
    /\ idOrder(components) = <<3, 2, 1>>
    /\ idOrder(sortedComponents) = <<1, 2, 3>>

\* the comparator is transitive on the rows of the list
transitive(list, field, direction) ==
    \A i, j, k \in 1..Len(list) :
        (/\ compare(list[i], list[j], field, direction) <= 0
         /\ compare(list[j], list[k], field, direction) <= 0)
            => compare(list[i], list[k], field, direction) <= 0

\* C18: when rows lack a value for the sort field, ascending no row without
\* a value is displayed after a row with a value, descending none before one,
\* and the comparator is transitive on the rows of the list.
C18_MissingFirst ==
    (\E k \in 1..Len(components) : ~present(components[k], sortField))
        => /\ \A j, k \in 1..Len(sortedComponents) :
                 j < k => IF sortDirection = "asc"
                          THEN ~(/\ present(sortedComponents[j], sortField)
                                 /\ ~present(sortedComponents[k], sortField))
                          ELSE ~(/\ ~present(sortedComponents[j], sortField)
                                 /\ present(sortedComponents[k], sortField))
           /\ transitive(components, sortField, sortDirection)

\* prices 0, none, 9 in the input, displayed ascending as none, 0, 9
C18_Witness ==
    /\ sortField = "price" /\ sortDirection = "asc"
    /\ idOrder(components) = <<1, 4, 2>>
    /\ idOrder(sortedComponents) = <<4, 1, 2>>

\* C19: a list of no row or one row is displayed as it is, for every sort
\* field and direction.
C19_SmallListUnchanged ==
    Len(components) <= 1
        => \A field \in SortFields, direction \in SortDirections :
               sortBy(components, field, direction) = components

\* a list of one row, sorted by price ascending after header clicks
C19_Witness ==
    /\ Len(components) = 1
    /\ trail # <<>>
    /\ sortField = "price" /\ sortDirection = "asc"
    /\ sortedComponents = components

\* C20: a table that comes on screen is sorted by total score, descending,
\* and has no row expanded.
C20_NewTableInitialState ==
    [][(~TableShown /\ TableShown')
          => /\ sortField' = "totalScore"
             /\ sortDirection' = "desc"
             /\ expandedRows' = {}]_vars

\* a table on screen in its initial state, after a row of an earlier table
\* was expanded
C20_Witness ==
    /\ TableShown
    /\ requested # {}
    /\ asked = {}
    /\ sortField = "totalScore" /\ sortDirection = "desc"
    /\ expandedRows = {}

(***************************************************************************)
(* Properties of the CSV export.                                           *)
(***************************************************************************)
\* a file was saved
exported == csvContent # <<>>

\* the part number of a component, as the export reads it
partNumberOf(c) == or(or(c.part_number, c.partNumber), string(<<>>)).chars

\* C21: the saved file, read back as CSV, has one record per component after
\* the header record, and the first field of each is the part number of its
\* component, also for part numbers with a double quote, a comma or a line
\* break.
C21_ExportReadsBack ==
    exported
        => /\ parseCSV(csvContent).ok
           /\ Len(parseCSV(csvContent).records) = Len(components) + 1
           /\ \A k \in 1..Len(components) :
                 parseCSV(csvContent).records[k + 1][1] = partNumberOf(components[k])

\* the cell of a score or the price in the row of a component
cellOf(c, field) ==
    CASE field = "specMatch" -> exportRow(c)[4]
      [] field = "totalScore" -> exportRow(c)[5]
      [] OTHER -> exportRow(c)[6]

\* C22: the spec-match, total-score and price cell of a row is the formatted
\* number exactly when the component has the value, 0 included, and is empty
\* exactly when the value is missing.
C22_NumberCells ==
    exported
        => \A k \in 1..Len(components), field \in NumericFields :
              IF rawValue(components[k], field).type = "number"
              THEN cellOf(components[k], field)
                       = toFixed(rawValue(components[k], field).num,
                                 IF field = "price" THEN 2 ELSE 1)
              ELSE cellOf(components[k], field) = <<>>

specMatchOf(c) == IF c.spec_match # Missing THEN c.spec_match ELSE c.specMatch

\* C26: a non-empty response is displayed as the result list exactly when
\* the highest spec-match score of its components, read from spec_match or
\* specMatch, is at least 50; otherwise the result list is emptied and the
\* low-relevance error is shown.
C26_DisplayedIffRelevant ==
    [][\A r \in SearchRequests, resp \in RecommendOutcomes :
         (RecommendDone(r, resp) /\ resp.ok /\ resp.components # <<>>)
         => IF \E k \in 1..Len(resp.components) :
                    specMatchOf(resp.components[k]) >= 50
            THEN components' = resp.components
            ELSE components' = <<>> /\ error' = lowRelevanceError(r.query)]_vars

\* C27 as claimed: a search for a query the validation rejects (empty after
\* trimming, only dots, or every word a listed software term) sends no
\* recommend request and ends with an error set, the result list empty and
\* the loading flag false; a query with a word outside the list of software
\* terms is never rejected: its request is sent.
C27_OnlyDotsRejected ==
    [][\A text \in SearchQueries :
         LET q == trim(text)
             words == split(lowerCased(q))
             onlyDots == q \in {<<".">>, <<"..">>, <<"...">>, <<"....">>}
             rejected == \/ q = <<>>
                         \/ onlyDots
                         \/ \A k \in 1..Len(words) : words[k] \in obviouslyBadTerms
         IN (HandleSubmit(text) \/ (Retry /\ text = query))
            => /\ rejected
                   => /\ searchReqs' = searchReqs
                      /\ error' # NoError
                      /\ components' = <<>>
                      /\ ~isLoading'
               /\ (\E k \in 1..Len(words) : words[k] \notin obviouslyBadTerms)
                   => searchReqs' = searchReqs (+) SetToBag({[query |-> q]})]_vars

\* C27 as amended: the queries rejected are those empty after trimming,
\* those that are exactly one, two or three dots, and those whose every word
\* is a listed software term; a search for one of them sends no recommend
\* request and ends with an error set, the result list empty and the loading
\* flag false. Every other query, four dots included, is not rejected: its
\* request is sent.
C27_RejectedQuerySendsNothing ==
    [][\A text \in SearchQueries :
         LET q == trim(text)
             words == split(lowerCased(q))
             dots == q \in {<<".">>, <<"..">>, <<"...">>}
             rejected == \/ q = <<>>
                         \/ dots
                         \/ \A k \in 1..Len(words) : words[k] \in obviouslyBadTerms
         IN (HandleSubmit(text) \/ (Retry /\ text = query))
            => IF rejected
               THEN /\ searchReqs' = searchReqs
                    /\ error' # NoError
                    /\ components' = <<>>
                    /\ ~isLoading'
               ELSE searchReqs' = searchReqs (+) SetToBag({[query |-> q]})]_vars

\* the search for '.' was rejected when it was submitted, and the page shows
\* its message
C27_Witness ==
    /\ query = <<".">>
    /\ error = validationError(<<".">>)
    /\ components = <<>>
    /\ ~isLoading
    /\ searchReqs = EmptyBag

(***************************************************************************)
(* Frame properties of the table.                                          *)
(***************************************************************************)
\* C28: a header click leaves the expanded rows and the explanation mapping
\* unchanged and sends no explanation request; expanding or collapsing a row
\* leaves the sort field and direction unchanged and changes the expansion
\* of no other row.
C28_SortAndExpansionIndependent ==
    [][/\ \A field \in SortFields :
            HeaderClick(field)
            => /\ expandedRows' = expandedRows
               /\ explanations' = explanations
               /\ explainReqs' = explainReqs
       /\ \A id \in Ids :
            ToggleRow(id)
            => /\ sortField' = sortField
               /\ sortDirection' = sortDirection
               /\ \A other \in Ids \ {id} :
                     (other \in expandedRows') = (other \in expandedRows)]_vars

\* the table sorted by price ascending after header clicks, with row 1
\* expanded and its request outstanding, and row 2 collapsed
C28_Witness ==
    /\ TableShown
    /\ sortField = "price" /\ sortDirection = "asc"
    /\ IdsOf(components) = {1, 2}
    /\ expandedRows = {1}
    /\ pendingFor(1) # {}

(***************************************************************************)
(* Properties of the admin page.                                           *)
(***************************************************************************)
\* C29: the upload zone shows a selected file exactly when the admin page
\* holds a file to process, and it is the same file.
C29_ZoneAndPageAgree ==
    selectedFile = uploadedFile

\* C30: the error message and the success message of the admin page are not
\* both set.
C30_ErrorAndSuccessExclusive ==
    ~(adminError # NoMessage /\ success # NoMessage)

====
